---- MODULE Spec2Model ----
(***************************************************************************)
(* A model of the symboltable crate: the array-backed interner             *)
(* (src/src/array.rs), the provenance-checked SymbolTable facade           *)
(* (src/src/table.rs) and the typed Symbol handle (src/src/symbol.rs).     *)
(*                                                                         *)
(* A store lives at an address (the Rc<RefCell<dyn Interner>> allocation). *)
(* Table handles and symbols hold strong references to it; the address is  *)
(* released when the last reference is dropped and may then be handed out  *)
(* again by the allocator.                                                 *)
(***************************************************************************)
EXTENDS Integers, Sequences, FiniteSets, Bags, TLC

\* ------------------------------------------------------------------ bounds
MaxLen == 1          \* longest string the caller interns or looks up
MaxCells == 2        \* most cells a store holds after the sentinel
NumAddrs == 2        \* addresses the allocator can hand out
NumHandles == 2      \* table handles the caller holds at once
NumSyms == 2         \* symbols the caller holds at once
MaxViewLen == 3      \* longest string a character view is taken of

\* ------------------------------------------------------------- value sets
Chars == {"a"}

RECURSIVE StringsOfLen(_)
StringsOfLen(n) ==
    IF n = 0 THEN {<< >>}
    ELSE {Append(s, c) : s \in StringsOfLen(n - 1), c \in Chars}

Strings == UNION {StringsOfLen(n) : n \in 0..MaxLen}

\* The logical domains (TypeId::of::<T>()) the caller uses.  "String" is
\* std's String; "Name" stands for a caller-defined newtype whose
\* TryFrom<String> rejects the empty string.
Domains == {"String", "Name"}

Addrs == 1..NumAddrs

\* History only: names for the tables the caller constructs.  A table and all
\* clones of its handle carry one name; a name is free again once no handle
\* and no symbol of that table is left.
Tables == 1..NumAddrs

\* Option<T>
None == << >>
Some(x) == <<x>>
IsSome(o) == o # << >>
Unwrap(o) == o[1]

Min(S) == CHOOSE x \in S : \A y \in S : x <= y

\* ------------------------------------------------------ Internable values
\* A value of domain typ whose string form is s.
Item(typ, s) == [typ |-> typ, repr |-> s]

\* item.as_ref().to_string()
AsRefStr(item) == item.repr

\* Whether T::try_from(s) succeeds.
Parses(typ, s) == typ = "String" \/ s # << >>

\* T::try_from(s): Ok(value) or Err.
TryFrom(typ, s) ==
    IF Parses(typ, s) THEN [kind |-> "Ok", value |-> Item(typ, s)]
    ELSE [kind |-> "Err", value |-> Item(typ, << >>)]

\* The values of domain typ the caller can hold.
Items == {Item(typ, s) : typ \in Domains, s \in Strings}
ValidItems == {it \in Items : Parses(it.typ, it.repr)}

\* ------------------------------------------------------------ array store
\* SymbolCell::new
NewCell(value) == [value |-> value, typs |-> {}]

\* SymbolCell::add_type
AddType(cell, typ) == [cell EXCEPT !.typs = @ \cup {typ}]

\* SymbolCell::has_type
HasType(cell, typ) == typ \in cell.typs

\* ArrayInterner::new -- position p of the Vec is element p + 1 here.
NewStore == << NewCell(<< >>) >>

\* Vec::get(position)
CellAt(store, position) ==
    IF position + 1 <= Len(store) THEN Some(store[position + 1]) ELSE None

\* Mutant of Position: the comparison is inverted.
Position_Inverted(store, val) ==
    LET hits == {x \in 0..(Len(store) - 2) : store[x + 2].value # val}
    IN IF hits = {} THEN None ELSE Some(Min(hits) + 1)

\* Mutant of Position: the sentinel is not skipped.
Position_NoSkip(store, val) ==
    LET hits == {x \in 0..(Len(store) - 1) : store[x + 1].value = val}
    IN IF hits = {} THEN None ELSE Some(Min(hits) + 1)

\* Mutant of Position: the index is not adjusted for the skipped sentinel.
Position_NoOffset(store, val) ==
    LET hits == {x \in 0..(Len(store) - 2) : store[x + 2].value = val}
    IN IF hits = {} THEN None ELSE Some(Min(hits))

\* ArrayInterner::position
Position(store, val) ==
    LET hits == {x \in 0..(Len(store) - 2) : store[x + 2].value = val}
    IN IF hits = {} THEN None ELSE Some(Min(hits) + 1)

\* Mutant of UpsertType: the marker is not added to the cell.
UpsertType_NoAdd(store, position, typ) ==
    [store |-> store, id |-> position]

\* Mutant of UpsertType: the marker replaces the markers of the cell.
UpsertType_Replace(store, position, typ) ==
    [store |-> [store EXCEPT ![position + 1] = AddType(NewCell(@.value), typ)],
     id |-> position]

\* ArrayInterner::upsert_type
UpsertType(store, position, typ) ==
    LET cell == store[position + 1]
        cell2 == IF ~HasType(cell, typ) THEN AddType(cell, typ) ELSE cell
    IN [store |-> [store EXCEPT ![position + 1] = cell2], id |-> position]

\* Mutant of GetType: the position is adjusted for the sentinel once more.
GetType_NextIndex(store, position, typ) ==
    IF IsSome(CellAt(store, position)) THEN Some(position + 1) ELSE None

\* ArrayInterner::get_type
GetType(store, position, typ) ==
    LET checked == IF IsSome(CellAt(store, position))
                   THEN Some(HasType(Unwrap(CellAt(store, position)), typ))
                   ELSE None
    IN IF IsSome(checked) THEN Some(position) ELSE None

\* Mutant of AddNew: the length is read after the push.
AddNew_LenAfterPush(store, val, typ) ==
    LET pushed == Append(store, AddType(NewCell(val), typ))
    IN [store |-> pushed, id |-> Len(pushed)]

\* ArrayInterner::add_new
AddNew(store, val, typ) ==
    LET end == Len(store)
    IN [store |-> Append(store, AddType(NewCell(val), typ)), id |-> end]

\* Mutant of StoreIntern: a string found under another domain only is given
\* a new cell.
StoreIntern_PerDomain(store, val, typ) ==
    LET index == Position(store, val)
    IN IF IsSome(index) /\ HasType(store[Unwrap(index) + 1], typ)
       THEN UpsertType(store, Unwrap(index), typ)
       ELSE AddNew(store, val, typ)

\* <ArrayInterner as Interner>::intern
StoreIntern(store, val, typ) ==
    LET index == Position(store, val)
    IN IF IsSome(index) THEN UpsertType(store, Unwrap(index), typ)
       ELSE AddNew(store, val, typ)

\* Mutant of StoreResolve: the identifier is taken as one-based.
StoreResolve_OffByOne(store, id) ==
    IF id >= 1 /\ IsSome(CellAt(store, id - 1))
    THEN [kind |-> "Ok", value |-> Unwrap(CellAt(store, id - 1)).value]
    ELSE [kind |-> "Panic", value |-> << >>]

\* <ArrayInterner as Interner>::resolve -- Vec::get(index).unwrap()
StoreResolve(store, id) ==
    IF IsSome(CellAt(store, id))
    THEN [kind |-> "Ok", value |-> Unwrap(CellAt(store, id)).value]
    ELSE [kind |-> "Panic", value |-> << >>]

\* <ArrayInterner as Interner>::get_interned
StoreGetInterned(store, val, typ) ==
    LET index == Position(store, val)
    IN IF IsSome(index) THEN GetType(store, Unwrap(index), typ) ELSE None

\* ------------------------------------------------------------------ state
VARIABLES
    stores,     \* address -> the ArrayInterner's Vec of cells; << >> when released
    rc,         \* address -> strong count of the Rc<RefCell<dyn Interner>>
    handles,    \* bag of the SymbolTable handles the caller holds
    syms,       \* bag of the Symbols the caller holds
    hist,       \* history: table -> the (val, typ, id) of every intern on it
    view,       \* the SymbolIterator the caller holds, or NoView
    trace,      \* history: what next and next_back returned from the view
    other,      \* a second SymbolIterator the caller holds, or NoView
    last        \* the operation that produced this state, with its result

vars == <<stores, rc, handles, syms, hist, view, trace, other, last>>

\* The caller holds no SymbolIterator.
NoView == << >>
NoTrace == [front |-> << >>, back |-> << >>]
viewVars == <<view, trace, other>>

\* ----------------------------------------------------------- table handle
\* SymbolTable { interner }: the handle is the address of the interner it
\* shares; tbl is history (the table it was constructed as or cloned from).
Handle(addr, tbl) == [interner |-> addr, tbl |-> tbl]

\* <SymbolTable as Resolvable>::addr -- self.interner.as_ptr()
Addr(h) == h.interner

\* #[derive(Clone)] on SymbolTable: Rc::clone of the interner
CloneOf(h) == Handle(h.interner, h.tbl)

\* ---------------------------------------------------------- typed handle
\* Symbol::new(id, lookup): lookup is the clone of the table the symbol
\* keeps.  src is history (the string the symbol was minted for).
NewSymbol(id, typ, lookup, src) ==
    [id |-> id, typ |-> typ, lookup |-> lookup, src |-> src]

\* Symbol::erase_type
EraseType(sym) == sym.id

\* Symbol::origin -- self.lookup.addr()
Origin(sym) == Addr(sym.lookup)

\* Mutant of SymbolEq: the originating table is not compared.
SymbolEq_IdOnly(x, y) == x.id = y.id

\* <Symbol as PartialEq>::eq
SymbolEq(x, y) == x.id = y.id /\ Origin(x) = Origin(y)

\* <Symbol as Hash>::hash: what is fed to the hasher
SymbolHash(x) == x.id

\* <Symbol as Ord>::cmp -- self.id.cmp(&other.id)
SymbolCmp(x, y) ==
    IF x.id < y.id THEN "Less"
    ELSE IF x.id > y.id THEN "Greater"
    ELSE "Equal"

\* <Symbol as PartialOrd>::partial_cmp
SymbolPartialCmp(x, y) == Some(SymbolCmp(x, y))

\* ---------------------------------------------------------------- facade
\* Result<T, ResolutionErr<T>> and the unwrap panic of the store
Ok(v) == [kind |-> "Ok", value |-> v]
MismatchErr(table, sym) ==
    [kind |-> "MismatchErr", table_address |-> table, symbol_address |-> sym]
ParseErr == [kind |-> "ParseErr"]
Panic == [kind |-> "Panic"]

\* SymbolTable::to_typed_symbol / upcast / id_as_symbol
ToTypedSymbol(h, id, typ, src) == NewSymbol(id, typ, CloneOf(h), src)

\* Mutant of TableResolve: the provenance check is missing.
TableResolve_NoCheck(h, sym) ==
    LET resolution == StoreResolve(stores[Addr(h)], EraseType(sym))
    IN IF resolution.kind = "Panic"
       THEN [res |-> Panic, queried |-> TRUE]
       ELSE LET parsed == TryFrom(sym.typ, resolution.value)
            IN [res |-> IF parsed.kind = "Ok" THEN Ok(parsed.value)
                        ELSE ParseErr,
                queried |-> TRUE]

\* SymbolTable::resolve through handle h; queried tells whether the
\* interner was borrowed.
TableResolve(h, sym) ==
    LET table_addr == Addr(h)
        sym_addr == Origin(sym)
    IN IF table_addr # sym_addr
       THEN [res |-> MismatchErr(table_addr, sym_addr), queried |-> FALSE]
       ELSE LET resolution == StoreResolve(stores[Addr(h)], EraseType(sym))
            IN IF resolution.kind = "Panic"
               THEN [res |-> Panic, queried |-> TRUE]
               ELSE LET parsed == TryFrom(sym.typ, resolution.value)
                    IN [res |-> IF parsed.kind = "Ok" THEN Ok(parsed.value)
                                ELSE ParseErr,
                        queried |-> TRUE]

\* <SymbolTable as Resolvable>::resolve on the table a symbol keeps
LookupResolve(lookup, id) == StoreResolve(stores[Addr(lookup)], id)

\* Symbol::into and <Symbol as Display>::fmt: the string written, or the
\* panic of the store's unwrap ("Panic") or of into ("IntoPanic").
SymbolDisplay(sym) ==
    LET interned_string == LookupResolve(sym.lookup, EraseType(sym))
    IN IF interned_string.kind = "Panic" THEN Panic
       ELSE LET value == TryFrom(sym.typ, interned_string.value)
            IN IF value.kind = "Ok" THEN Ok(AsRefStr(value.value))
               ELSE [kind |-> "IntoPanic"]

\* SymbolTable::get_interned through handle h: Option<Symbol<T>>
TableGetInterned(h, val, typ) ==
    LET id == StoreGetInterned(stores[Addr(h)], val, typ)
    IN IF IsSome(id) THEN Some(ToTypedSymbol(h, Unwrap(id), typ, val)) ELSE None

\* SymbolTable::has_interned through handle h
TableHasInterned(h, val, typ) == IsSome(TableGetInterned(h, val, typ))

\* ----------------------------------------------------------- bookkeeping
Held(bag) == BagToSet(bag)
One(x) == SetToBag({x})

\* The tables that still have a handle or a symbol in the given bags.
LiveTables(hs, ss) ==
    {h.tbl : h \in Held(hs)} \cup {s.lookup.tbl : s \in Held(ss)}

\* Rc::drop on the interner at addr, leaving the caller with handles hs and
\* symbols ss: the store is released with the last strong reference.
Release(addr, hs, ss) ==
    /\ handles' = hs
    /\ syms' = ss
    /\ rc' = [rc EXCEPT ![addr] = @ - 1]
    /\ stores' = IF rc[addr] = 1 THEN [stores EXCEPT ![addr] = << >>] ELSE stores
    /\ hist' = [t \in Tables |-> IF t \in LiveTables(hs, ss) THEN hist[t] ELSE {}]

\* The address the drop of a reference to addr gives back to the allocator.
Released(addr) == IF rc[addr] = 1 THEN Some(addr) ELSE None

\* History only: whether the step before this one released the store at a.
JustReleased(a) ==
    last.op \in {"drop_table", "drop_symbol"} /\ last.released = Some(a)

\* ------------------------------------------------------------------- Init
Init ==
    /\ stores = [a \in Addrs |-> << >>]
    /\ rc = [a \in Addrs |-> 0]
    /\ handles = EmptyBag
    /\ syms = EmptyBag
    /\ hist = [t \in Tables |-> {}]
    /\ view = NoView
    /\ trace = NoTrace
    /\ other = NoView
    /\ last = [op |-> "none"]

\* ---------------------------------------------------------------- actions
\* SymbolTable::new(InternerFlavor::Array) / SymbolTable::from: the allocator
\* may place the new interner at any address that is not in use.
NewTable(a) ==
    /\ BagCardinality(handles) < NumHandles
    /\ rc[a] = 0
    /\ \E t \in Tables :
        /\ t \notin LiveTables(handles, syms)
        /\ \A u \in Tables : u < t => u \in LiveTables(handles, syms)
        /\ handles' = handles (+) One(Handle(a, t))
        /\ last' = [op |-> "new", h |-> Handle(a, t), reused |-> JustReleased(a)]
    /\ stores' = [stores EXCEPT ![a] = NewStore]
    /\ rc' = [rc EXCEPT ![a] = 1]
    /\ UNCHANGED <<syms, hist, viewVars>>

\* Mutant of CloneTable: the clone gets a copy of the store at an address of
\* its own.
CloneTable_Deep(h) ==
    /\ BagIn(h, handles)
    /\ BagCardinality(handles) < NumHandles
    /\ \E a \in Addrs :
        /\ rc[a] = 0
        /\ stores' = [stores EXCEPT ![a] = stores[Addr(h)]]
        /\ rc' = [rc EXCEPT ![a] = 1]
        /\ handles' = handles (+) One(Handle(a, h.tbl))
        /\ last' = [op |-> "clone", h |-> h, h2 |-> Handle(a, h.tbl)]
    /\ UNCHANGED <<syms, hist, viewVars>>

\* <SymbolTable as Clone>::clone
CloneTable(h) ==
    /\ BagIn(h, handles)
    /\ BagCardinality(handles) < NumHandles
    /\ handles' = handles (+) One(CloneOf(h))
    /\ rc' = [rc EXCEPT ![Addr(CloneOf(h))] = @ + 1]
    /\ last' = [op |-> "clone", h |-> h, h2 |-> CloneOf(h)]
    /\ UNCHANGED <<stores, syms, hist, viewVars>>

\* Mutant of DropTable: the symbols hold no strong reference, so the store
\* is released with the last handle.
DropTable_Unshared(h) ==
    /\ BagIn(h, handles)
    /\ LET hs == handles (-) One(h)
           gone == \A g \in Held(hs) : Addr(g) # Addr(h)
       IN /\ handles' = hs
          /\ syms' = syms
          /\ rc' = [rc EXCEPT ![Addr(h)] = IF gone THEN 0 ELSE @ - 1]
          /\ stores' = IF gone THEN [stores EXCEPT ![Addr(h)] = << >>] ELSE stores
          /\ hist' = [t \in Tables |->
                        IF t \in LiveTables(hs, syms) THEN hist[t] ELSE {}]
          /\ last' = [op |-> "drop_table",
                      released |-> IF gone THEN Some(Addr(h)) ELSE None]
    /\ UNCHANGED viewVars

\* drop(table)
DropTable(h) ==
    /\ BagIn(h, handles)
    /\ Release(Addr(h), handles (-) One(h), syms)
    /\ last' = [op |-> "drop_table", released |-> Released(Addr(h))]
    /\ UNCHANGED viewVars

\* drop(symbol)
DropSymbol(sym) ==
    /\ BagIn(sym, syms)
    /\ Release(Addr(sym.lookup), handles, syms (-) One(sym))
    /\ last' = [op |-> "drop_symbol", released |-> Released(Addr(sym.lookup))]
    /\ UNCHANGED viewVars

\* Mutant of Intern: the symbol does not keep a strong reference to the
\* interner.
Intern_WeakLookup(h, item) ==
    /\ BagIn(h, handles)
    /\ BagCardinality(syms) < NumSyms
    /\ LET str_repr == AsRefStr(item)
           typ_id == item.typ
           r == StoreIntern(stores[Addr(h)], str_repr, typ_id)
           sym == ToTypedSymbol(h, r.id, typ_id, str_repr)
       IN /\ Len(r.store) <= MaxCells + 1
          /\ stores' = [stores EXCEPT ![Addr(h)] = r.store]
          /\ syms' = syms (+) One(sym)
          /\ hist' = [hist EXCEPT ![h.tbl] = @ \cup {<<str_repr, typ_id, r.id>>}]
          /\ last' = [op |-> "intern", h |-> h, val |-> str_repr, typ |-> typ_id,
                      sym |-> sym]
    /\ UNCHANGED <<rc, handles, viewVars>>

\* SymbolTable::intern(&item) through handle h
Intern(h, item) ==
    /\ BagIn(h, handles)
    /\ BagCardinality(syms) < NumSyms
    /\ LET str_repr == AsRefStr(item)
           typ_id == item.typ
           r == StoreIntern(stores[Addr(h)], str_repr, typ_id)
           sym == ToTypedSymbol(h, r.id, typ_id, str_repr)
       IN /\ Len(r.store) <= MaxCells + 1
          /\ stores' = [stores EXCEPT ![Addr(h)] = r.store]
          /\ syms' = syms (+) One(sym)
          /\ rc' = [rc EXCEPT ![Addr(sym.lookup)] = @ + 1]
          /\ hist' = [hist EXCEPT ![h.tbl] = @ \cup {<<str_repr, typ_id, r.id>>}]
          /\ last' = [op |-> "intern", h |-> h, val |-> str_repr, typ |-> typ_id,
                      sym |-> sym]
    /\ UNCHANGED <<handles, viewVars>>

\* SymbolTable::resolve(&sym) through handle h
Resolve(h, sym) ==
    /\ BagIn(h, handles)
    /\ BagIn(sym, syms)
    /\ LET r == TableResolve(h, sym)
       IN last' = [op |-> "resolve", h |-> h, sym |-> sym, res |-> r.res,
                   queried |-> r.queried]
    /\ UNCHANGED <<stores, rc, handles, syms, hist, viewVars>>

\* Mutant of GetInterned: the lookup records the domain on the cell it finds.
GetInterned_Recording(h, val, typ) ==
    /\ BagIn(h, handles)
    /\ BagCardinality(syms) < NumSyms
    /\ LET r == TableGetInterned(h, val, typ)
       IN /\ syms' = IF IsSome(r) THEN syms (+) One(Unwrap(r)) ELSE syms
          /\ rc' = IF IsSome(r)
                   THEN [rc EXCEPT ![Addr(Unwrap(r).lookup)] = @ + 1] ELSE rc
          /\ stores' = IF IsSome(r)
                       THEN [stores EXCEPT ![Addr(h)] =
                               UpsertType(@, Unwrap(r).id, typ).store]
                       ELSE stores
          /\ last' = [op |-> "get_interned", h |-> h, val |-> val, typ |-> typ,
                      res |-> r]
    /\ UNCHANGED <<handles, hist, viewVars>>

\* SymbolTable::get_interned::<T, _>(val) through handle h; the caller keeps
\* a returned symbol
GetInterned(h, val, typ) ==
    /\ BagIn(h, handles)
    /\ BagCardinality(syms) < NumSyms
    /\ LET r == TableGetInterned(h, val, typ)
       IN /\ syms' = IF IsSome(r) THEN syms (+) One(Unwrap(r)) ELSE syms
          /\ rc' = IF IsSome(r)
                   THEN [rc EXCEPT ![Addr(Unwrap(r).lookup)] = @ + 1] ELSE rc
          /\ last' = [op |-> "get_interned", h |-> h, val |-> val, typ |-> typ,
                      res |-> r]
    /\ UNCHANGED <<stores, handles, hist, viewVars>>

\* SymbolTable::has_interned::<T, _>(val) through handle h; the symbol that
\* get_interned builds is dropped before returning
HasInterned(h, val, typ) ==
    /\ BagIn(h, handles)
    /\ last' = [op |-> "has_interned", h |-> h, val |-> val, typ |-> typ,
                res |-> TableHasInterned(h, val, typ)]
    /\ UNCHANGED <<stores, rc, handles, syms, hist, viewVars>>

\* x == y for two held symbols of one type (or one symbol with itself)
CompareSymbols(x, y) ==
    /\ BagIn(x, syms)
    /\ BagIn(y, syms)
    /\ x.typ = y.typ
    /\ last' = [op |-> "eq", x |-> x, y |-> y, res |-> SymbolEq(x, y)]
    /\ UNCHANGED <<stores, rc, handles, syms, hist, viewVars>>

\* x.cmp(&y), x.partial_cmp(&y) and the hashes of two held symbols of one
\* type (or of one symbol with itself)
OrderSymbols(x, y) ==
    /\ BagIn(x, syms)
    /\ BagIn(y, syms)
    /\ x.typ = y.typ
    /\ last' = [op |-> "cmp", x |-> x, y |-> y, res |-> SymbolCmp(x, y),
                partial |-> SymbolPartialCmp(x, y),
                hashes |-> <<SymbolHash(x), SymbolHash(y)>>]
    /\ UNCHANGED <<stores, rc, handles, syms, hist, viewVars>>

\* sym.to_string() for a held symbol
DisplaySymbol(sym) ==
    /\ BagIn(sym, syms)
    /\ last' = [op |-> "display", sym |-> sym, res |-> SymbolDisplay(sym)]
    /\ UNCHANGED <<stores, rc, handles, syms, hist, viewVars>>

Next ==
    \/ \E a \in Addrs : NewTable(a)
    \/ \E h \in Held(handles) : CloneTable(h)
    \/ \E h \in Held(handles) : DropTable(h)
    \/ \E sym \in Held(syms) : DropSymbol(sym)
    \/ \E h \in Held(handles), item \in ValidItems : Intern(h, item)
    \/ \E h \in Held(handles), sym \in Held(syms) : Resolve(h, sym)
    \/ \E h \in Held(handles), val \in Strings, typ \in Domains :
          GetInterned(h, val, typ)
    \/ \E h \in Held(handles), val \in Strings, typ \in Domains :
          HasInterned(h, val, typ)
    \/ \E x \in Held(syms), y \in Held(syms) : CompareSymbols(x, y)
    \/ \E sym \in Held(syms) : DisplaySymbol(sym)
    \/ \E x \in Held(syms), y \in Held(syms) : OrderSymbols(x, y)

Spec == Init /\ [][Next]_vars

\* --------------------------------------------------------- character view
\* The characters of the strings a view is taken of; "U+00E9" (e acute) is
\* encoded in two bytes, the others in one.
IterChars == {"a", "b", "U+00E9"}

\* char::len_utf8
Utf8Len(c) == IF c = "U+00E9" THEN 2 ELSE 1

RECURSIVE IterStringsOfLen(_)
IterStringsOfLen(n) ==
    IF n = 0 THEN {<< >>}
    ELSE {Append(s, c) : s \in IterStringsOfLen(n - 1), c \in IterChars}

IterStrings == UNION {IterStringsOfLen(n) : n \in 0..MaxViewLen}

\* String::len -- the length in bytes
RECURSIVE ByteLen(_)
ByteLen(s) == IF s = << >> THEN 0 ELSE Utf8Len(Head(s)) + ByteLen(Tail(s))

\* The quotation mark and the bullet the Debug implementation writes.
Quote == "U+0022"
Marker == "U+2022"

\* SymbolIterator::new -- source.to_string().chars().collect()
NewIterator(source) ==
    [source |-> source, remaining |-> SymbolDisplay(source).value]

\* SymbolIterator::has_next
HasNext(it) == it.remaining # << >>

\* Mutant of Peek: the back of the buffer is inspected.
Peek_Back(it) ==
    IF it.remaining = << >> THEN None
    ELSE Some(it.remaining[Len(it.remaining)])

\* SymbolIterator::peek -- remaining.front().cloned()
Peek(it) ==
    IF it.remaining = << >> THEN None ELSE Some(Head(it.remaining))

\* VecDeque::pop_front
PopFront(remaining) ==
    IF remaining = << >> THEN [res |-> None, remaining |-> remaining]
    ELSE [res |-> Some(Head(remaining)), remaining |-> Tail(remaining)]

\* Mutant of PopBack: the character is taken from the front.
PopBack_FromFront(remaining) ==
    PopFront(remaining)

\* VecDeque::pop_back
PopBack(remaining) ==
    IF remaining = << >> THEN [res |-> None, remaining |-> remaining]
    ELSE [res |-> Some(remaining[Len(remaining)]),
          remaining |-> SubSeq(remaining, 1, Len(remaining) - 1)]

\* The loop of the Debug implementation from character i on: the marker is
\* written before the character whose index is num_matched.
RECURSIVE WriteChars(_, _, _)
WriteChars(original, i, num_matched) ==
    IF i >= Len(original) THEN << >>
    ELSE (IF i = num_matched THEN <<Marker>> ELSE << >>)
            \o <<original[i + 1]>>
            \o WriteChars(original, i + 1, num_matched)

\* <SymbolIterator as Debug>::fmt: the characters written
DebugFmt(it) ==
    LET original == SymbolDisplay(it.source).value
        num_matched == ByteLen(original) - Len(it.remaining)
    IN <<Quote>>
          \o WriteChars(original, 0, num_matched)
          \o (IF ~HasNext(it) THEN <<Marker>> ELSE << >>)
          \o <<Quote>>

\* The state after
\*     let table = SymbolTable::new(InternerFlavor::Array);
\*     let sym = table.intern(&item);
\* for an item of either domain over the characters of IterChars.
InitIter ==
    \E typ \in Domains, s \in IterStrings :
        /\ Parses(typ, s)
        /\ LET h == Handle(1, 1)
               r == StoreIntern(NewStore, s, typ)
               sym == ToTypedSymbol(h, r.id, typ, s)
           IN /\ stores = [a \in Addrs |-> IF a = 1 THEN r.store ELSE << >>]
              /\ rc = [a \in Addrs |-> IF a = 1 THEN 2 ELSE 0]
              /\ handles = One(h)
              /\ syms = One(sym)
              /\ hist = [t \in Tables |-> IF t = 1 THEN {<<s, typ, r.id>>} ELSE {}]
              /\ last = [op |-> "intern", h |-> h, val |-> s, typ |-> typ,
                         sym |-> sym]
        /\ view = NoView
        /\ trace = NoTrace
        /\ other = NoView

\* SymbolIterator::new(sym): the symbol moves into the view.
NewView(sym) ==
    /\ view = NoView
    /\ BagIn(sym, syms)
    /\ SymbolDisplay(sym).kind = "Ok"
    /\ view' = NewIterator(sym)
    /\ trace' = NoTrace
    /\ syms' = syms (-) One(sym)
    /\ last' = [op |-> "new_view"]
    /\ UNCHANGED <<stores, rc, handles, hist, other>>

\* view.next()
ViewNext ==
    /\ view # NoView
    /\ LET popped == PopFront(view.remaining)
       IN /\ view' = [view EXCEPT !.remaining = popped.remaining]
          /\ trace' = IF IsSome(popped.res)
                      THEN [trace EXCEPT !.front = Append(@, Unwrap(popped.res))]
                      ELSE trace
          /\ last' = [op |-> "next", res |-> popped.res]
    /\ UNCHANGED <<stores, rc, handles, syms, hist, other>>

\* view.next_back()
ViewNextBack ==
    /\ view # NoView
    /\ LET popped == PopBack(view.remaining)
       IN /\ view' = [view EXCEPT !.remaining = popped.remaining]
          /\ trace' = IF IsSome(popped.res)
                      THEN [trace EXCEPT !.back = Append(@, Unwrap(popped.res))]
                      ELSE trace
          /\ last' = [op |-> "next_back", res |-> popped.res]
    /\ UNCHANGED <<stores, rc, handles, syms, hist, other>>

\* view.peek()
ViewPeek ==
    /\ view # NoView
    /\ last' = [op |-> "peek", res |-> Peek(view)]
    /\ UNCHANGED <<stores, rc, handles, syms, hist, viewVars>>

\* view.has_next()
ViewHasNext ==
    /\ view # NoView
    /\ last' = [op |-> "has_next", res |-> HasNext(view)]
    /\ UNCHANGED <<stores, rc, handles, syms, hist, viewVars>>

\* format!("{}", view) / format!("{:?}", view)
ViewDisplay ==
    /\ view # NoView
    /\ last' = [op |-> "display_view", res |-> DebugFmt(view)]
    /\ UNCHANGED <<stores, rc, handles, syms, hist, viewVars>>

NextIter ==
    \/ \E sym \in Held(syms) : NewView(sym)
    \/ ViewNext
    \/ ViewNextBack
    \/ ViewPeek
    \/ ViewHasNext
    \/ ViewDisplay

SpecIter == InitIter /\ [][NextIter]_vars

\* ------------------------------------------------- two character views
MaxEqLen == 2        \* longest string two views are compared over

\* The strings two views are compared over.
EqStrings ==
    {s \in UNION {IterStringsOfLen(n) : n \in 0..MaxEqLen} :
        \A i \in 1..Len(s) : s[i] \in {"a", "b"}}

\* Mutant of IteratorEq: the source symbols are not compared.
IteratorEq_RemainingOnly(l, r) ==
    l.remaining = r.remaining

\* <SymbolIterator as PartialEq>::eq
IteratorEq(l, r) ==
    SymbolEq(l.source, r.source) /\ l.remaining = r.remaining

\* The state after
\*     let first = SymbolTable::new(InternerFlavor::Array);
\*     let second = SymbolTable::new(InternerFlavor::Array);
\*     let x = first.intern(&s1);
\*     let y = first.intern(&s2);     or     let y = second.intern(&s2);
InitEq ==
    \E s1 \in EqStrings, s2 \in EqStrings, t \in {1, 2} :
        LET first == Handle(1, 1)
            second == Handle(2, 2)
            r1 == StoreIntern(NewStore, s1, "String")
            x == ToTypedSymbol(first, r1.id, "String", s1)
            r2 == StoreIntern(IF t = 1 THEN r1.store ELSE NewStore, s2, "String")
            y == ToTypedSymbol(IF t = 1 THEN first ELSE second, r2.id, "String", s2)
        IN /\ stores = [a \in Addrs |->
                          IF a = 1 THEN (IF t = 1 THEN r2.store ELSE r1.store)
                          ELSE IF a = 2 THEN (IF t = 1 THEN NewStore ELSE r2.store)
                          ELSE << >>]
           /\ rc = [a \in Addrs |->
                      IF a = 1 THEN (IF t = 1 THEN 3 ELSE 2)
                      ELSE IF a = 2 THEN (IF t = 1 THEN 1 ELSE 2)
                      ELSE 0]
           /\ handles = One(first) (+) One(second)
           /\ syms = One(x) (+) One(y)
           /\ hist = [u \in Tables |->
                        IF u = 1
                        THEN {<<s1, "String", r1.id>>}
                                \cup (IF t = 1 THEN {<<s2, "String", r2.id>>} ELSE {})
                        ELSE IF u = 2 /\ t = 2 THEN {<<s2, "String", r2.id>>}
                        ELSE {}]
           /\ last = [op |-> "intern", h |-> y.lookup, val |-> s2,
                      typ |-> "String", sym |-> y]
           /\ view = NoView
           /\ trace = NoTrace
           /\ other = NoView

\* SymbolIterator::new(sym) for the second view: the symbol moves into it.
NewOther(sym) ==
    /\ other = NoView
    /\ BagIn(sym, syms)
    /\ SymbolDisplay(sym).kind = "Ok"
    /\ other' = NewIterator(sym)
    /\ syms' = syms (-) One(sym)
    /\ last' = [op |-> "new_other"]
    /\ UNCHANGED <<stores, rc, handles, hist, view, trace>>

\* let other = view.clone(): #[derive(Clone)] copies the remaining
\* characters and clones the symbol, which shares its table.
CloneView ==
    /\ view # NoView
    /\ other = NoView
    /\ other' = view
    /\ rc' = [rc EXCEPT ![Origin(view.source)] = @ + 1]
    /\ last' = [op |-> "clone_view"]
    /\ UNCHANGED <<stores, handles, syms, hist, view, trace>>

\* other.next()
OtherNext ==
    /\ other # NoView
    /\ LET popped == PopFront(other.remaining)
       IN /\ other' = [other EXCEPT !.remaining = popped.remaining]
          /\ last' = [op |-> "other_next", res |-> popped.res]
    /\ UNCHANGED <<stores, rc, handles, syms, hist, view, trace>>

\* view == other
CompareViews ==
    /\ view # NoView
    /\ other # NoView
    /\ last' = [op |-> "view_eq", res |-> IteratorEq(view, other)]
    /\ UNCHANGED <<stores, rc, handles, syms, hist, viewVars>>

NextEq ==
    \/ \E sym \in Held(syms) : NewView(sym)
    \/ \E sym \in Held(syms) : NewOther(sym)
    \/ CloneView
    \/ ViewNext
    \/ ViewNextBack
    \/ OtherNext
    \/ CompareViews

SpecEq == InitEq /\ [][NextEq]_vars

\* ------------------------------------------------------------- properties
\* The table a handle or a symbol belongs to, by construction history.
TableOf(h) == h.tbl
MintedBy(sym) == sym.lookup.tbl

\* The interns recorded for string val on table t.
InternsOf(t, val) == {e \in hist[t] : e[1] = val}

\* C1 -- Round-trip: resolving a String symbol on the table that minted it
\* (through any handle of that table) returns Ok of the string it was minted
\* for.
C1_RoundTrip ==
    (last.op = "resolve" /\ last.sym.typ = "String"
        /\ TableOf(last.h) = MintedBy(last.sym))
    => last.res = Ok(Item("String", last.sym.src))

C1_Witness ==
    /\ last.op = "resolve"
    /\ last.sym.typ = "String"
    /\ TableOf(last.h) = MintedBy(last.sym)
    /\ last.sym.src = <<"a">>
    /\ last.sym.id = 2
    /\ last.res = Ok(Item("String", <<"a">>))

\* C2 -- Idempotent identity: an intern of a string that was interned before
\* on the same table, under whatever domain, returns the identifier every
\* earlier intern of that string returned and leaves the number of cells as
\* it was.
C2_IdempotentIdentity ==
    [][(last'.op = "intern" /\ InternsOf(TableOf(last'.h), last'.val) # {})
        => /\ \A e \in InternsOf(TableOf(last'.h), last'.val) :
                e[3] = last'.sym.id
           /\ Len(stores'[Addr(last'.h)]) = Len(stores[Addr(last'.h)])]_vars

C2_Witness ==
    /\ last.op = "intern"
    /\ last.sym.id = 2
    /\ \E e \in InternsOf(TableOf(last.h), last.val) : e[2] # last.typ
    /\ Len(stores[Addr(last.h)]) = 3

\* C3 -- Distinctness: on one table two different strings never get the same
\* identifier, and symbols minted there for different strings are unequal.
C3_Distinctness ==
    /\ \A t \in Tables : \A e1 \in hist[t], e2 \in hist[t] :
          e1[1] # e2[1] => e1[3] # e2[3]
    /\ \A x \in Held(syms), y \in Held(syms) :
          (MintedBy(x) = MintedBy(y) /\ x.src # y.src) => ~SymbolEq(x, y)

C3_Witness ==
    /\ last.op = "eq"
    /\ MintedBy(last.x) = MintedBy(last.y)
    /\ last.x.src # last.y.src
    /\ last.res = FALSE
    /\ \E e1 \in hist[MintedBy(last.x)], e2 \in hist[MintedBy(last.x)] :
          e1[1] # e2[1]

\* C4 -- Cross-table rejection: resolving a symbol through a handle of a
\* table that did not mint it returns the provenance mismatch carrying both
\* identities, without borrowing the interner and without changing any store.
C4_CrossTableRejection ==
    [][(last'.op = "resolve" /\ TableOf(last'.h) # MintedBy(last'.sym))
        => /\ last'.res = MismatchErr(Addr(last'.h), Origin(last'.sym))
           /\ Addr(last'.h) # Origin(last'.sym)
           /\ ~last'.queried
           /\ stores' = stores]_vars

\* The symbol's string is interned in the resolving table too, at the same
\* position.
C4_Witness ==
    /\ last.op = "resolve"
    /\ TableOf(last.h) # MintedBy(last.sym)
    /\ last.res.kind = "MismatchErr"
    /\ StoreResolve(stores[Addr(last.h)], last.sym.id)
          = [kind |-> "Ok", value |-> last.sym.src]
    /\ InternsOf(TableOf(last.h), last.sym.src) # {}

\* C5 -- get_interned(value, domain) returns an identifier only if exactly
\* that (value, domain) pair was interned on the table before, and then it is
\* the identifier intern returned.
C5_GetInternedExactPair ==
    (last.op = "get_interned" /\ IsSome(last.res))
    => <<last.val, last.typ, Unwrap(last.res).id>> \in hist[TableOf(last.h)]

\* C6 -- Lookup semantics: has_interned(s) is false while s was never
\* interned on the table (the empty string included) and true once s was
\* interned there under the domain asked for.
C6_LookupSemantics ==
    last.op = "has_interned"
    => /\ InternsOf(TableOf(last.h), last.val) = {} => last.res = FALSE
       /\ (\E e \in InternsOf(TableOf(last.h), last.val) : e[2] = last.typ)
             => last.res = TRUE

\* The empty string is looked up on a table that holds other strings only.
C6_Witness ==
    /\ last.op = "has_interned"
    /\ last.val = << >>
    /\ last.res = FALSE
    /\ hist[TableOf(last.h)] # {}

\* C7 -- Only intern mutates: resolve, get_interned and has_interned leave
\* every store as it was, cell for cell.
C7_OnlyInternMutates ==
    [][last'.op \in {"resolve", "get_interned", "has_interned"}
        => stores' = stores]_vars

C7_Witness ==
    /\ last.op = "get_interned"
    /\ IsSome(last.res)
    /\ Len(stores[Addr(last.h)]) = 3

\* C8 -- Sentinel: position 0 of every live store is the empty string with
\* no markers; no intern returns 0, and the empty string, when interned, has
\* a cell of its own at a position >= 1.
C8_Sentinel ==
    /\ \A a \in Addrs : rc[a] > 0 =>
          /\ Len(stores[a]) >= 1
          /\ stores[a][1] = [value |-> << >>, typs |-> {}]
    /\ \A t \in Tables : \A e \in hist[t] : e[3] >= 1
    /\ \A x \in Held(syms) : x.id >= 1
    /\ (last.op = "intern" /\ last.val = << >>)
          => /\ last.sym.id >= 1
             /\ Len(stores[Addr(last.h)]) >= last.sym.id + 1
             /\ stores[Addr(last.h)][last.sym.id + 1].value = << >>

C8_Witness ==
    /\ last.op = "intern"
    /\ last.val = << >>
    /\ last.sym.id = 2
    /\ stores[Addr(last.h)][2].value = <<"a">>
    /\ stores[Addr(last.h)][1].typs = {}

\* C9 -- Symbol equality: two symbols of one type are equal exactly when
\* their identifiers are equal and one table minted both; symbols for one
\* string from two tables are unequal, from one table equal.
C9_SymbolEquality ==
    last.op = "eq"
    => /\ last.res = (last.x.id = last.y.id /\ MintedBy(last.x) = MintedBy(last.y))
       /\ (last.x.src = last.y.src /\ MintedBy(last.x) # MintedBy(last.y))
             => last.res = FALSE
       /\ (last.x.src = last.y.src /\ MintedBy(last.x) = MintedBy(last.y))
             => last.res = TRUE

C9_Witness ==
    /\ last.op = "eq"
    /\ last.x.src = last.y.src
    /\ last.x.id = last.y.id
    /\ MintedBy(last.x) # MintedBy(last.y)
    /\ last.res = FALSE

\* C10 -- Clone shares the store: all handles of one table (and the lookups
\* of its symbols) have one identity, which stays the same while the table
\* lives; handles of different live tables have different identities; what
\* was interned through one handle is found, and resolves, through any other.
Members == Held(handles) \cup {s.lookup : s \in Held(syms)}

C10_CloneSharesStore ==
    [][/\ \A g \in Members', h \in Members' :
            (TableOf(g) = TableOf(h)) = (Addr(g) = Addr(h))
       /\ \A g \in Members, h \in Members' :
            TableOf(g) = TableOf(h) => Addr(g) = Addr(h)
       /\ last'.op = "clone"
            => TableOf(last'.h2) = TableOf(last'.h) /\ Addr(last'.h2) = Addr(last'.h)
       /\ last'.op = "has_interned"
            => (<<last'.val, last'.typ>> \in
                   {<<e[1], e[2]>> : e \in hist'[TableOf(last'.h)]}
                => last'.res = TRUE)
       /\ (last'.op = "resolve" /\ TableOf(last'.h) = MintedBy(last'.sym))
            => last'.res.kind \in {"Ok", "ParseErr"}]_vars

\* A string interned while the table had two handles is found through one.
C10_Witness ==
    /\ last.op = "has_interned"
    /\ last.res = TRUE
    /\ CopiesIn(last.h, handles) = 2
    /\ Len(stores[Addr(last.h)]) = 3

\* Everything that holds a strong reference to an interner: the handles, the
\* held symbols and the symbol inside the view.
Owners ==
    Members \cup (IF view = NoView THEN {} ELSE {view.source.lookup})

\* The address of live table t.
AddrOfTable(t) ==
    CHOOSE a \in Addrs : \E m \in Owners : TableOf(m) = t /\ Addr(m) = a

\* C11 -- Lifecycle: a store is alive exactly while a handle or a symbol of
\* its table exists, and is released with the last of them; a symbol that was
\* interned displays the string it was interned for, also when no handle of
\* its table is left.
C11_Lifecycle ==
    /\ \A a \in Addrs : (rc[a] > 0) = (\E m \in Owners : Addr(m) = a)
    /\ \A a \in Addrs : (stores[a] # << >>) = (rc[a] > 0)
    /\ (last.op = "display"
          /\ <<last.sym.src, last.sym.typ, last.sym.id>> \in hist[MintedBy(last.sym)])
       => last.res = Ok(last.sym.src)

\* A symbol is displayed after every handle was dropped.
C11_Witness ==
    /\ last.op = "display"
    /\ handles = EmptyBag
    /\ last.res = Ok(<<"a">>)
    /\ last.sym.id = 2

\* C12 -- Domain sharing: all interns of one string on a table, under
\* whatever domains, returned one identifier; the string occupies exactly one
\* cell after the sentinel, and that cell carries the marker of every domain
\* the string was interned under.
C12_DomainSharing ==
    \A t \in Tables : \A e1 \in hist[t], e2 \in hist[t] :
        e1[1] = e2[1] =>
           LET store == stores[AddrOfTable(t)]
           IN /\ e1[3] = e2[3]
              /\ e1[3] + 1 <= Len(store)
              /\ store[e1[3] + 1].value = e1[1]
              /\ {e1[2], e2[2]} \subseteq store[e1[3] + 1].typs
              /\ Cardinality({p \in 1..(Len(store) - 1) :
                                 store[p + 1].value = e1[1]}) = 1

C12_Witness ==
    \E t \in Tables : \E e1 \in hist[t], e2 \in hist[t] :
        /\ e1[1] = e2[1]
        /\ e1[2] # e2[2]
        /\ stores[AddrOfTable(t)][e1[3] + 1].typs = Domains
        /\ Len(stores[AddrOfTable(t)]) = 2

\* C13 -- Each string is stored once: no two cells of a store, the sentinel
\* included, hold the same string.
C13_EachStringOnce ==
    \A a \in Addrs : \A i \in 1..Len(stores[a]), j \in 1..Len(stores[a]) :
        i # j => stores[a][i].value # stores[a][j].value

\* C17 -- No invalid identifier from own symbols: every held symbol carries
\* a position >= 1 inside the store of its table, and neither resolving it on
\* that table nor displaying it hits the unwrap of the store.
C17_NoInvalidIdentifier ==
    /\ \A sym \in Held(syms) :
          sym.id >= 1 /\ sym.id + 1 <= Len(stores[Origin(sym)])
    /\ (last.op = "resolve" /\ TableOf(last.h) = MintedBy(last.sym))
          => last.res.kind # "Panic"
    /\ last.op = "display" => last.res.kind # "Panic"

C17_Witness ==
    /\ last.op = "display"
    /\ last.sym.id = 2
    /\ last.res.kind = "Ok"
    /\ Len(stores[Origin(last.sym)]) = 3

\* C18 -- Append-only store: while a store lives, no step makes it shorter,
\* changes the string of a cell or takes a marker from a cell, and every
\* symbol held before and after the step resolves to the same string.
C18_AppendOnly ==
    [][\A a \in Addrs : (rc[a] > 0 /\ rc'[a] > 0) =>
          /\ Len(stores'[a]) >= Len(stores[a])
          /\ \A i \in 1..Len(stores[a]) :
                /\ stores'[a][i].value = stores[a][i].value
                /\ stores[a][i].typs \subseteq stores'[a][i].typs
          /\ \A sym \in Held(syms) :
                (BagIn(sym, syms') /\ Origin(sym) = a)
                => StoreResolve(stores'[a], EraseType(sym))
                      = StoreResolve(stores[a], EraseType(sym))]_vars

\* A second string is interned while a symbol for the first one is held.
C18_Witness ==
    /\ last.op = "intern"
    /\ last.sym.id = 2
    /\ Len(stores[Addr(last.h)]) = 3
    /\ \E sym \in Held(syms) :
          /\ MintedBy(sym) = TableOf(last.h)
          /\ sym.id = 1
          /\ StoreResolve(stores[Origin(sym)], sym.id).value = sym.src

\* C20 -- Symbols from lookup carry the provenance of symbols from intern:
\* when get_interned returns a symbol for a pair that was interned on the
\* table, it has the identifier and origin of the symbol intern returned (so
\* the two are equal), resolves on that table to the interned value, and is
\* rejected with a provenance mismatch by every other table.
C20_LookupProvenance ==
    (last.op = "get_interned" /\ IsSome(last.res))
    => \A e \in hist[TableOf(last.h)] :
          (e[1] = last.val /\ e[2] = last.typ) =>
             LET t == TableOf(last.h)
                 sym == Unwrap(last.res)
                 interned == NewSymbol(e[3], e[2], Handle(AddrOfTable(t), t), e[1])
             IN /\ sym.id = e[3]
                /\ MintedBy(sym) = t
                /\ SymbolEq(sym, interned)
                /\ \A g \in Held(handles) :
                      IF TableOf(g) = t
                      THEN /\ TableResolve(g, sym).res = Ok(Item(e[2], e[1]))
                           /\ TableResolve(g, sym) = TableResolve(g, interned)
                      ELSE TableResolve(g, sym).res.kind = "MismatchErr"

C20_Witness ==
    /\ last.op = "get_interned"
    /\ IsSome(last.res)
    /\ <<last.val, last.typ, Unwrap(last.res).id>> \in hist[TableOf(last.h)]
    /\ Unwrap(last.res).id = 2
    /\ \E g \in Held(handles) : TableOf(g) # TableOf(last.h)

\* The sequence s back to front.
Reverse(s) == [i \in 1..Len(s) |-> s[Len(s) + 1 - i]]

\* C14 -- Character view consumption: under any interleaving of next and
\* next_back, what next returned so far, what is left, and what next_back
\* returned so far (back to front) make up the source string, so next returns
\* the characters in order from the start, next_back in reverse order from
\* the end, and no character twice; a call returns a character exactly when
\* one is left, so exactly n calls return one and every later call nothing.
C14_ViewConsumption ==
    [][view' # NoView =>
          LET original == view'.source.src
          IN /\ trace'.front \o view'.remaining \o Reverse(trace'.back) = original
             /\ last'.op \in {"next", "next_back"} =>
                   /\ IsSome(last'.res) = (view.remaining # << >>)
                   /\ Len(trace'.front) + Len(trace'.back)
                         = Len(trace.front) + Len(trace.back)
                              + (IF IsSome(last'.res) THEN 1 ELSE 0)
                   /\ (last'.op = "next" /\ IsSome(last'.res))
                         => Unwrap(last'.res) = original[Len(trace'.front)]
                   /\ (last'.op = "next_back" /\ IsSome(last'.res))
                         => Unwrap(last'.res)
                               = original[Len(original) + 1 - Len(trace'.back)]]_vars

\* A three-character string was consumed from both ends and a further call
\* returned nothing.
C14_Witness ==
    /\ view # NoView
    /\ view.source.src = <<"a", "U+00E9", "b">>
    /\ trace.front = <<"a", "U+00E9">>
    /\ trace.back = <<"b">>
    /\ last.op \in {"next", "next_back"}
    /\ last.res = None

\* C15 -- peek never advances the view: peek leaves the view as it is and
\* returns what the next call to next would return (nothing when
\* exhausted), and has_next is true exactly when peek returns a character.
C15_PeekNeverAdvances ==
    [][/\ last'.op = "peek" =>
             /\ view' = view
             /\ trace' = trace
             /\ last'.res = PopFront(view'.remaining).res
       /\ last'.op = "has_next" =>
             /\ view' = view
             /\ trace' = trace
             /\ last'.res = IsSome(Peek(view'))
             /\ last'.res = IsSome(PopFront(view'.remaining).res)]_vars

\* peek on a partly consumed view whose two ends differ.
C15_Witness ==
    /\ view # NoView
    /\ last.op = "peek"
    /\ last.res = Some("b")
    /\ trace.front = <<"a">>
    /\ view.remaining = <<"b", "a">>

\* C16 -- Display marker position: after any mix of next and next_back, the
\* view displays the quoted source string with the marker right after the
\* characters consumed by next (at the end when the view is used up).
\* Stated for strings of one-byte characters only.
C16_DisplayMarkerPosition ==
    (last.op = "display_view" /\ ByteLen(view.source.src) = Len(view.source.src))
    => LET original == view.source.src
           consumed == Len(trace.front)
       IN \/ last.res = <<Quote>> \o SubSeq(original, 1, consumed) \o <<Marker>>
                           \o SubSeq(original, consumed + 1, Len(original))
                           \o <<Quote>>
          \/ /\ view.remaining = << >>
             /\ last.res = <<Quote>> \o original \o <<Marker, Quote>>

\* C19 -- Fresh and exhausted display for every string: a fresh view
\* displays the quoted string with the marker before the first character, a
\* view consumed from the front displays it with the marker after the last
\* character, and every display contains exactly one marker.
C19_FreshAndExhaustedDisplay ==
    last.op = "display_view"
    => LET original == view.source.src
       IN /\ trace = NoTrace
                => last.res = <<Quote, Marker>> \o original \o <<Quote>>
          /\ trace.front = original
                => last.res = <<Quote>> \o original \o <<Marker, Quote>>
          /\ Cardinality({i \in 1..Len(last.res) : last.res[i] = Marker}) = 1

\* C21 -- Character view equality: two views compare equal exactly when
\* their symbols are equal (same identifier, same table) and their remaining
\* characters are equal; a clone equals the view it was cloned from; taking
\* a character from one of two equal views that are not used up makes them
\* unequal; views over one string from two tables are unequal.
C21_ViewEquality ==
    [][(view' # NoView /\ other' # NoView) =>
          /\ IteratorEq(view', other')
                = (/\ view'.source.id = other'.source.id
                   /\ MintedBy(view'.source) = MintedBy(other'.source)
                   /\ view'.remaining = other'.remaining)
          /\ last'.op = "view_eq" => last'.res = IteratorEq(view', other')
          /\ last'.op = "clone_view" => IteratorEq(view', other')
          /\ (/\ view # NoView
              /\ other # NoView
              /\ IteratorEq(view, other)
              /\ HasNext(view)
              /\ last'.op \in {"next", "next_back", "other_next"})
                => ~IteratorEq(view', other')
          /\ (/\ view'.source.src = other'.source.src
              /\ MintedBy(view'.source) # MintedBy(other'.source))
                => ~IteratorEq(view', other')]_vars

\* Two views over one string from two tables, with equal identifiers and
\* equal remaining characters, were compared.
C21_Witness ==
    /\ view # NoView
    /\ other # NoView
    /\ last.op = "view_eq"
    /\ last.res = FALSE
    /\ view.source.src = <<"a", "b">>
    /\ other.source.src = <<"a", "b">>
    /\ view.source.id = other.source.id
    /\ MintedBy(view.source) # MintedBy(other.source)
    /\ view.remaining = <<"b">>
    /\ other.remaining = <<"b">>

\* C22 -- Ordering agrees with equality: for two symbols of one type, from
\* whatever tables, cmp gives Equal exactly when the symbols are ==, and
\* symbols that are == have equal hashes.
C22_OrderingAgreesWithEquality ==
    last.op = "cmp"
    => /\ (last.res = "Equal") = SymbolEq(last.x, last.y)
       /\ last.partial = Some(last.res)
       /\ SymbolEq(last.x, last.y) => last.hashes[1] = last.hashes[2]

\* C23 -- Provenance survives address reuse: although the allocator may
\* hand a released address to a later table, the origin of a live symbol is
\* never the address of a table that did not mint it: the store at its
\* origin holds the symbol's string at the symbol's identifier, every handle
\* at that address is a handle of the minting table, and resolve accepts a
\* symbol only on the table that minted it.
C23_ProvenanceSurvivesReuse ==
    /\ \A sym \in Held(syms) :
          /\ rc[Origin(sym)] > 0
          /\ \E e \in hist[MintedBy(sym)] : e[1] = sym.src /\ e[3] = sym.id
          /\ StoreResolve(stores[Origin(sym)], sym.id) = [kind |-> "Ok", value |-> sym.src]
          /\ \A h \in Held(handles) :
                Origin(sym) = Addr(h) => MintedBy(sym) = TableOf(h)
    /\ (last.op = "new" /\ last.reused)
          => \A sym \in Held(syms) : Origin(sym) # Addr(last.h)
    /\ (last.op = "resolve" /\ last.res.kind # "MismatchErr")
          => MintedBy(last.sym) = TableOf(last.h)

\* A table is constructed at the address released by the step before, while
\* a symbol of another table, whose handles were all dropped, is alive.
C23_Witness ==
    /\ last.op = "new"
    /\ last.reused
    /\ \E sym \in Held(syms) :
          /\ MintedBy(sym) # TableOf(last.h)
          /\ \A h \in Held(handles) : TableOf(h) # MintedBy(sym)
          /\ sym.src = <<"a">>

====
